---- MODULE Spec2Model ----
(***************************************************************************)
(* noreplay: a no-wrap replay detector (src/lib.rs) over a bit-window      *)
(* ("Mask") with two backends: the packed-word Bigint (src/bigint.rs) and  *)
(* the cell-sequence Dequeue (src/dequeue.rs).                             *)
(*                                                                         *)
(* A machine word (usize, 64 bits) is modelled as the set of its set bit   *)
(* positions, a subset of 0..63: | is \cup, & is \cap, << and >> move the  *)
(* positions and drop those that leave the word.                           *)
(***************************************************************************)
EXTENDS Integers, Sequences, FiniteSets, TLC

VARIABLES
    detector,         \* the NoWrapReplayDetector under test
    peer,             \* a second detector, fed the same calls (SpecPair only)
    bi,               \* a stand-alone Mask object, as in the bigint tests (SpecMask only)
    overflow_checks,  \* build profile: TRUE = debug (overflow checks panic), FALSE = release (wrapping)
    faulted,          \* a call has panicked; the object is gone
    history           \* the calls made so far: operation, argument, result, state before the call

vars == <<detector, peer, bi, overflow_checks, faulted, history>>

----------------------------------------------------------------------------
(* Bounds of the model *)

\* calls per behaviour
MaxCalls == 4

\* window_size values of DetectorConfig: one word with sz % 64 <= 32, one word
\* with sz % 64 > 32, three words
WindowSizes == {2, 40, 129}

\* max_seq values of DetectorConfig
MaxSeqs == {66}

\* calls per behaviour on a stand-alone mask
MaxMaskCalls == 3

\* widths of a stand-alone mask: as WindowSizes, and a whole word
MaskSizes == {4, 40, 64, 130}

\* shift amounts applied to a stand-alone mask
ShiftInputs == {0, 1, 30, 64, 65}

\* sequence numbers submitted by the caller: 0, neighbours (1, 65, 66), jumps of
\* 64 and 65 (1 to 65, 1 to 66), distances 39 and 40 (26 to 65, 26 to 66), and
\* one above max_seq
SeqInputs == {0, 1, 26, 65, 66, 67}

----------------------------------------------------------------------------
(* usize words as sets of bit positions *)

\* bits of a usize
WordBits == 64

AllBits == 0 .. (WordBits - 1)

\* w << p for 0 <= p < 64: bits shifted past bit 63 are lost
WordShl(w, p) == { b + p : b \in { x \in w : x + p < WordBits } }

\* w >> p for 0 <= p < 64
WordShr(w, p) == { b - p : b \in { x \in w : x >= p } }

\* 1_usize.checked_shl(r): None when r >= 64, and unwrap_or(0) turns None into 0
CheckedShlOne(r) == IF r >= WordBits THEN {} ELSE {r}

\* w.wrapping_sub(1) for w = 0 or w a single bit 1 << r
WrappingSubOne(w) ==
    IF w = {} THEN AllBits
    ELSE LET r == CHOOSE b \in w : TRUE IN 0 .. (r - 1)

----------------------------------------------------------------------------
(* Results: Result<bool> / Result<()> and a panic *)

Ok(b) == [tag |-> "Ok", latest |-> b, seq |-> 0]
Duplicated(s) == [tag |-> "Duplicated", latest |-> FALSE, seq |-> s]
OutsideWindow(s) == [tag |-> "OutsideWindow", latest |-> FALSE, seq |-> s]
Panic == [tag |-> "panic", latest |-> FALSE, seq |-> 0]

IsErr(r) == r.tag \in {"Duplicated", "OutsideWindow"}

----------------------------------------------------------------------------
(* Packed-word backend: Bigint *)

\* Bigint::new(sz), sz > 0 (sz = 0 panics at construction)
BigintNew(sz) ==
    [kind |-> "Bigint",
     sz |-> sz,
     segments |-> [i \in 0 .. ((sz + 63) \div 64) - 1 |-> {}],
     msb_mask |-> WrappingSubOne(CheckedShlOne(WordBits - (sz % 64)))]

BigintLen(m) == Cardinality(DOMAIN m.segments)

\* bit(n) faults when len - n/64 - 1 underflows (debug: overflow panic,
\* release: the wrapped index is out of bounds)
BigintBitPanics(m, n) == n <= m.sz /\ n \div 64 >= BigintLen(m)

\* bit with the bound taken from the capacity of the words instead of sz
BigintBitCapacityBound(m, n) ==
    IF n >= BigintLen(m) * WordBits THEN FALSE
    ELSE LET segment == BigintLen(m) - (n \div 64) - 1
             pos == n % 64
         IN  (m.segments[segment] \cap WordShl({0}, pos)) # {}

BigintBit(m, n) ==
    IF n > m.sz THEN FALSE
    ELSE LET segment == BigintLen(m) - (n \div 64) - 1
             pos == n % 64
         IN  (m.segments[segment] \cap WordShl({0}, pos)) # {}

BigintSetBitPanics(m, n) == n <= m.sz /\ n \div 64 >= BigintLen(m)

BigintSetBit(m, n) ==
    IF n > m.sz THEN m
    ELSE LET i == BigintLen(m) - (n \div 64) - 1
             pos == n % 64
         IN  [m EXCEPT !.segments[i] = @ \cup WordShl({0}, pos)]

\* x >> (64 - pos): with pos = 0 the shift amount is 64; a build with overflow
\* checks panics, a build without them masks the amount to 64 & 63 = 0
ShrCarry(w, pos) == WordShr(w, (WordBits - pos) % WordBits)

\* one iteration of the loop of shl, on the segments as they are at that point
ShlStep(segs, i, len, pos, seg) ==
    LET c1 == IF i + seg < len THEN WordShl(segs[i + seg], pos) ELSE {}
        c2 == IF i + seg + 1 < len THEN ShrCarry(segs[i + seg + 1], pos) ELSE {}
        carry == c1 \cup c2
    IN  [segs EXCEPT ![i] = WordShl(segs[i], pos) \cup carry]

RECURSIVE ShlLoop(_, _, _, _, _)
\* for i in 0..len
ShlLoop(segs, i, len, pos, seg) ==
    IF i >= len THEN segs
    ELSE ShlLoop(ShlStep(segs, i, len, pos, seg), i + 1, len, pos, seg)

\* shl faults in a build with overflow checks when some iteration evaluates
\* segments[i + seg + 1] >> 64
BigintShlPanics(m, n, oc) ==
    /\ oc
    /\ n # 0
    /\ n % 64 = 0
    /\ \E i \in 0 .. BigintLen(m) - 1 : i + (n \div 64) + 1 < BigintLen(m)

BigintShl(m, n) ==
    IF n = 0 THEN m
    ELSE LET len == BigintLen(m)
             pos == n % 64
             seg == n \div 64
             shifted == ShlLoop(m.segments, 0, len, pos, seg)
         IN  [m EXCEPT !.segments = [shifted EXCEPT ![0] = @ \cap m.msb_mask]]

----------------------------------------------------------------------------
(* Cell-sequence backend: Dequeue.  vec[k] of the source is vec[k + 1] here *)

\* Dequeue::new(size)
DequeueNew(size) ==
    [kind |-> "Dequeue", vec |-> [k \in 1 .. size |-> 0], size |-> size]

\* vec[size - n - 1] faults when size - n - 1 underflows (n = size) or is not
\* an index of vec
DequeueIndexPanics(m, n) == n <= m.size /\ (n = m.size \/ m.size - n - 1 >= Len(m.vec))

DequeueBitPanics(m, n) == DequeueIndexPanics(m, n)

DequeueBit(m, n) ==
    IF n > m.size THEN FALSE
    ELSE m.vec[(m.size - n - 1) + 1] = 1

DequeueSetBitPanics(m, n) == DequeueIndexPanics(m, n)

DequeueSetBit(m, n) ==
    IF n > m.size THEN m
    ELSE [m EXCEPT !.vec[(m.size - n - 1) + 1] = 1]

RECURSIVE PushBackZeros(_, _)
\* for _ in 0..n { vec.push_back(0) }
PushBackZeros(vec, n) == IF n = 0 THEN vec ELSE PushBackZeros(Append(vec, 0), n - 1)

\* shl that clears already when n reaches the size
DequeueShlClearAtSize(m, n) ==
    IF n >= m.size THEN [m EXCEPT !.vec = <<>>]
    ELSE [m EXCEPT !.vec = PushBackZeros(@, n)]

DequeueShl(m, n) ==
    IF n > m.size THEN [m EXCEPT !.vec = <<>>]
    ELSE [m EXCEPT !.vec = PushBackZeros(@, n)]

----------------------------------------------------------------------------
(* trait Mask: dynamic dispatch on the backend *)

BitPanics(m, n) ==
    IF m.kind = "Bigint" THEN BigintBitPanics(m, n) ELSE DequeueBitPanics(m, n)

Bit(m, n) ==
    IF m.kind = "Bigint" THEN BigintBit(m, n) ELSE DequeueBit(m, n)

SetBitPanics(m, n) ==
    IF m.kind = "Bigint" THEN BigintSetBitPanics(m, n) ELSE DequeueSetBitPanics(m, n)

SetBit(m, n) ==
    IF m.kind = "Bigint" THEN BigintSetBit(m, n) ELSE DequeueSetBit(m, n)

ShlPanics(m, n, oc) ==
    IF m.kind = "Bigint" THEN BigintShlPanics(m, n, oc) ELSE FALSE

Shl(m, n) ==
    IF m.kind = "Bigint" THEN BigintShl(m, n) ELSE DequeueShl(m, n)

----------------------------------------------------------------------------
(* NoWrapReplayDetector *)

\* DetectorConfig.mask: None, or Some(Box::new(Dequeue::new(window_size)))
MaskOptions == {"None", "Dequeue"}

\* NoWrapReplayDetector::new(cfg)
DetectorNew(mask, max_seq, window_size) ==
    [sliding_window |-> IF mask = "None" THEN BigintNew(window_size)
                        ELSE DequeueNew(window_size),
     max_seq |-> max_seq,
     latest_seq |-> 0,
     window_size |-> window_size]

\* check with the lower end of the window tested by > instead of >=
CheckStrictWindow(d, seq) ==
    IF seq > d.max_seq THEN OutsideWindow(seq)
    ELSE IF seq <= d.latest_seq
    THEN IF d.latest_seq > d.window_size + seq THEN OutsideWindow(seq)
         ELSE IF BitPanics(d.sliding_window, d.latest_seq - seq) THEN Panic
         ELSE IF Bit(d.sliding_window, d.latest_seq - seq) THEN Duplicated(seq)
         ELSE Ok(FALSE)
    ELSE Ok(FALSE)

\* check with the ceiling tested against max_seq + 1
CheckCeilingPlusOne(d, seq) ==
    IF seq > d.max_seq + 1 THEN OutsideWindow(seq)
    ELSE IF seq <= d.latest_seq
    THEN IF d.latest_seq >= d.window_size + seq THEN OutsideWindow(seq)
         ELSE IF BitPanics(d.sliding_window, d.latest_seq - seq) THEN Panic
         ELSE IF Bit(d.sliding_window, d.latest_seq - seq) THEN Duplicated(seq)
         ELSE Ok(FALSE)
    ELSE Ok(FALSE)

\* check(seq): Ok(()) is Ok(FALSE) here
Check(d, seq) ==
    IF seq > d.max_seq THEN OutsideWindow(seq)
    ELSE IF seq <= d.latest_seq
    THEN IF d.latest_seq >= d.window_size + seq THEN OutsideWindow(seq)
         ELSE IF BitPanics(d.sliding_window, d.latest_seq - seq) THEN Panic
         ELSE IF Bit(d.sliding_window, d.latest_seq - seq) THEN Duplicated(seq)
         ELSE Ok(FALSE)
    ELSE Ok(FALSE)

\* check_and_accept with latest initialised to false instead of latest_seq == 0
CheckAndAcceptNoFirst(d, seq, oc) ==
    LET c == Check(d, seq) IN
    IF c.tag # "Ok" THEN [det |-> d, res |-> c]
    ELSE
    LET slide == seq > d.latest_seq
        n == seq - d.latest_seq
        latest_seq1 == IF slide THEN seq ELSE d.latest_seq
        diff == latest_seq1 - seq
    IN  IF slide /\ ShlPanics(d.sliding_window, n, oc) THEN [det |-> d, res |-> Panic]
        ELSE LET w1 == IF slide THEN Shl(d.sliding_window, n) ELSE d.sliding_window IN
             IF SetBitPanics(w1, diff) THEN [det |-> d, res |-> Panic]
             ELSE [det |-> [d EXCEPT !.sliding_window = SetBit(w1, diff),
                                     !.latest_seq = latest_seq1],
                   res |-> Ok(slide)]

\* check_and_accept that slides the window before it checks
CheckAndAcceptSlideFirst(d, seq, oc) ==
    LET latest0 == (d.latest_seq = 0)
        slide == seq > d.latest_seq
        n == seq - d.latest_seq
    IN  IF slide /\ ShlPanics(d.sliding_window, n, oc) THEN [det |-> d, res |-> Panic]
        ELSE LET d1 == IF slide
                       THEN [d EXCEPT !.sliding_window = Shl(d.sliding_window, n),
                                      !.latest_seq = seq]
                       ELSE d
                 c == Check(d1, seq)
                 diff == d1.latest_seq - seq
             IN  IF c.tag # "Ok" THEN [det |-> d1, res |-> c]
                 ELSE IF SetBitPanics(d1.sliding_window, diff) THEN [det |-> d, res |-> Panic]
                 ELSE [det |-> [d1 EXCEPT !.sliding_window = SetBit(d1.sliding_window, diff)],
                       res |-> Ok(slide \/ latest0)]

\* check_and_accept that sets latest_seq = seq on every acceptance
CheckAndAcceptAlwaysLatest(d, seq, oc) ==
    LET c == Check(d, seq) IN
    IF c.tag # "Ok" THEN [det |-> d, res |-> c]
    ELSE
    LET latest0 == (d.latest_seq = 0)
        slide == seq > d.latest_seq
        n == seq - d.latest_seq
        latest == IF slide THEN TRUE ELSE latest0
    IN  IF slide /\ ShlPanics(d.sliding_window, n, oc) THEN [det |-> d, res |-> Panic]
        ELSE LET w1 == IF slide THEN Shl(d.sliding_window, n) ELSE d.sliding_window IN
             IF SetBitPanics(w1, 0) THEN [det |-> d, res |-> Panic]
             ELSE [det |-> [d EXCEPT !.sliding_window = SetBit(w1, 0),
                                     !.latest_seq = seq],
                   res |-> Ok(latest)]

\* check_and_accept(seq): the detector after the call and the result.  A call
\* that panics leaves no usable detector; det is then the state it started from.
CheckAndAccept(d, seq, oc) ==
    LET c == Check(d, seq) IN
    IF c.tag # "Ok" THEN [det |-> d, res |-> c]
    ELSE
    LET latest0 == (d.latest_seq = 0)
        slide == seq > d.latest_seq
        n == seq - d.latest_seq
        latest_seq1 == IF slide THEN seq ELSE d.latest_seq
        latest == IF slide THEN TRUE ELSE latest0
        diff == latest_seq1 - seq
    IN  IF slide /\ ShlPanics(d.sliding_window, n, oc) THEN [det |-> d, res |-> Panic]
        ELSE LET w1 == IF slide THEN Shl(d.sliding_window, n) ELSE d.sliding_window IN
             IF SetBitPanics(w1, diff) THEN [det |-> d, res |-> Panic]
             ELSE [det |-> [d EXCEPT !.sliding_window = SetBit(w1, diff),
                                     !.latest_seq = latest_seq1],
                   res |-> Ok(latest)]

----------------------------------------------------------------------------
(* The detector driven by a caller *)

NoObject == 0

Last == history[Len(history)]

\* the calls before the last one
Earlier == SubSeq(history, 1, Len(history) - 1)

\* sequence numbers for which a check_and_accept call of h returned Ok
Accepted(h) ==
    { h[i].seq : i \in { j \in 1 .. Len(h) :
                           h[j].op = "check_and_accept" /\ h[j].res.tag = "Ok" } }

\* sequence numbers for which a check_and_accept call of h returned an error
Rejected(h) ==
    { h[i].seq : i \in { j \in 1 .. Len(h) :
                           h[j].op = "check_and_accept" /\ IsErr(h[j].res) } }

Init ==
    /\ \E mask \in MaskOptions, max_seq \in MaxSeqs, window_size \in WindowSizes :
           detector = DetectorNew(mask, max_seq, window_size)
    /\ peer = NoObject
    /\ bi = NoObject
    /\ overflow_checks \in BOOLEAN
    /\ faulted = FALSE
    /\ history = <<>>

\* detector.check(seq)
CallCheck(seq) ==
    /\ ~faulted
    /\ Len(history) < MaxCalls
    /\ LET r == Check(detector, seq) IN
       /\ history' = Append(history, [op |-> "check", seq |-> seq, res |-> r, pre |-> detector])
       /\ faulted' = (r.tag = "panic")
    /\ UNCHANGED <<detector, peer, bi, overflow_checks>>

\* detector.check_and_accept(seq)
CallCheckAndAccept(seq) ==
    /\ ~faulted
    /\ Len(history) < MaxCalls
    /\ LET out == CheckAndAccept(detector, seq, overflow_checks) IN
       /\ detector' = out.det
       /\ history' = Append(history, [op |-> "check_and_accept", seq |-> seq,
                                      res |-> out.res, pre |-> detector])
       /\ faulted' = (out.res.tag = "panic")
    /\ UNCHANGED <<peer, bi, overflow_checks>>

Next ==
    \/ \E seq \in SeqInputs : CallCheck(seq)
    \/ \E seq \in SeqInputs : CallCheckAndAccept(seq)

Spec == Init /\ [][Next]_vars

----------------------------------------------------------------------------
(* Properties of the detector, checked under Spec *)

\* the flag of m at offset k reads set
Flag(m, k) == k >= 0 /\ ~BitPanics(m, k) /\ Bit(m, k)

Called == Len(history) > 0

DefaultBackend == detector.sliding_window.kind = "Bigint"

LastIsAccept == Called /\ Last.op = "check_and_accept"

\* the last call resubmits a sequence number that an earlier call accepted and
\* that is still inside the window
ResubmittedInWindow ==
    /\ LastIsAccept
    /\ Last.seq \in Accepted(Earlier)
    /\ Last.pre.latest_seq - Last.seq < Last.pre.window_size

\* C1: with the default backend, a sequence number that was accepted and is
\* submitted again while latest_seq - seq < window_size is answered
\* Err(Duplicated(seq)), and the call changes nothing.
C1_DuplicateInWindowRejected ==
    (DefaultBackend /\ ResubmittedInWindow)
        => (Last.res = Duplicated(Last.seq) /\ detector = Last.pre)

\* the last call submits a sequence number at or behind the far end of the window
BehindWindow ==
    /\ LastIsAccept
    /\ Last.seq <= Last.pre.latest_seq
    /\ Last.pre.latest_seq - Last.seq >= Last.pre.window_size

\* C2: check_and_accept(seq) with seq <= latest_seq and
\* latest_seq - seq >= window_size returns Err(OutsideWindow(seq)), accepted
\* before or not.
C2_BehindWindowRejected ==
    BehindWindow => Last.res = OutsideWindow(Last.seq)

\* a sequence number that was accepted has fallen exactly window_size behind and
\* is rejected as outside the window
C2_Witness ==
    /\ BehindWindow
    /\ Last.seq \in Accepted(Earlier)
    /\ Last.pre.latest_seq - Last.seq = Last.pre.window_size
    /\ Last.res = OutsideWindow(Last.seq)

AboveCeiling == LastIsAccept /\ Last.seq > Last.pre.max_seq

\* C3: with either backend, check_and_accept(seq) with seq > max_seq returns
\* Err(OutsideWindow(seq)), whatever latest_seq and the window hold.
C3_AboveMaxSeqRejected ==
    AboveCeiling => Last.res = OutsideWindow(Last.seq)

\* a detector on the cell-sequence backend that has already accepted something
\* rejects a sequence number above max_seq
C3_Witness ==
    /\ AboveCeiling
    /\ ~DefaultBackend
    /\ Last.pre.latest_seq > 0
    /\ Last.res = OutsideWindow(Last.seq)

\* the check_and_accept calls of h, in order
RECURSIVE AcceptCalls(_)
AcceptCalls(h) ==
    IF h = <<>> THEN <<>>
    ELSE IF Head(h).op = "check_and_accept"
         THEN <<Head(h)>> \o AcceptCalls(Tail(h))
         ELSE AcceptCalls(Tail(h))

\* every sequence number submitted so far is above the ones before it and not
\* above max_seq
StrictlyIncreasing(a) ==
    /\ \A i \in 1 .. Len(a) : a[i].seq <= detector.max_seq
    /\ \A i \in 1 .. Len(a) : \A j \in 1 .. Len(a) : i < j => a[i].seq < a[j].seq

\* C4: from a fresh detector with the default backend, when the sequence
\* numbers submitted are strictly increasing and do not exceed max_seq, every
\* check_and_accept call returns Ok(true).
C4_IncreasingAllNewest ==
    LET a == AcceptCalls(history) IN
    (DefaultBackend /\ StrictlyIncreasing(a))
        => \A i \in 1 .. Len(a) : a[i].res = Ok(TRUE)

\* the last call returned to its caller
LastReturned == LastIsAccept /\ Last.res.tag # "panic"

\* the last call submits a sequence number that was never accepted, is not
\* above max_seq, and is ahead of latest_seq or inside the window
FreshInRange ==
    /\ LastIsAccept
    /\ Last.seq <= Last.pre.max_seq
    /\ Last.seq \notin Accepted(Earlier)
    /\ (Last.seq > Last.pre.latest_seq
        \/ Last.pre.latest_seq - Last.seq < Last.pre.window_size)

\* C5: with the default backend, a call that returns Err(Duplicated(seq)) was
\* preceded by a call that accepted seq, and a call that returns for a never
\* accepted seq <= max_seq ahead of latest_seq or inside the window returns Ok.
C5_DuplicatedOnlyIfAccepted ==
    (DefaultBackend /\ LastReturned)
        => /\ (Last.res.tag = "Duplicated" => Last.seq \in Accepted(Earlier))
           /\ (FreshInRange => Last.res.tag = "Ok")

\* C6: once check_and_accept(seq) has returned an error, every later
\* check_and_accept(seq) returns an error.
C6_RejectionPermanent ==
    (LastIsAccept /\ Last.seq \in Rejected(Earlier)) => IsErr(Last.res)

\* C7: with window_size > 0 and a backend of width window_size, no call to
\* check or check_and_accept faults.
C7_NoFault == ~faulted

\* C8: when check_and_accept(seq) returns Ok(b), b is true exactly when
\* seq > latest_seq or latest_seq = 0 at entry, b is false exactly when
\* 0 < latest_seq and seq < latest_seq at entry, and b true leaves
\* latest_seq = seq.
C8_NewestFlag ==
    (LastIsAccept /\ Last.res.tag = "Ok")
        => /\ Last.res.latest = (Last.seq > Last.pre.latest_seq \/ Last.pre.latest_seq = 0)
           /\ (~Last.res.latest) = (0 < Last.pre.latest_seq /\ Last.seq < Last.pre.latest_seq)
           /\ (Last.res.latest => detector.latest_seq = Last.seq)

\* a gap behind the high-water mark was filled (Ok(false)) and a later call
\* advanced the high-water mark (Ok(true))
C8_Witness ==
    /\ LastIsAccept
    /\ Last.res = Ok(TRUE)
    /\ Last.seq > Last.pre.latest_seq
    /\ Last.pre.latest_seq > 0
    /\ \E i \in 1 .. Len(Earlier) :
           Earlier[i].op = "check_and_accept" /\ Earlier[i].res = Ok(FALSE)

\* C14: in every reachable state, 0 <= latest_seq <= max_seq.
C14_LatestWithinCeiling ==
    0 <= detector.latest_seq /\ detector.latest_seq <= detector.max_seq

\* latest_seq has reached max_seq and a sequence number above it was refused
C14_Witness ==
    /\ AboveCeiling
    /\ Last.pre.latest_seq = Last.pre.max_seq
    /\ detector.latest_seq = detector.max_seq
    /\ IsErr(Last.res)

\* C15: with the default backend, for every d with 0 <= d < window_size the
\* flag at offset d is set iff d <= latest_seq and latest_seq - d was accepted
\* by an earlier check_and_accept call.
C15_WindowRecordsAccepted ==
    DefaultBackend
        => \A d \in 0 .. (detector.window_size - 1) :
               Flag(detector.sliding_window, d)
                   = (d <= detector.latest_seq
                        /\ (detector.latest_seq - d) \in Accepted(history))

\* C16: check(seq) never changes the detector, and a check_and_accept(seq)
\* that returns Duplicated or OutsideWindow leaves latest_seq and every flag
\* as they were.
C16_RejectionChangesNothing ==
    (Called /\ (Last.op = "check" \/ (LastIsAccept /\ IsErr(Last.res))))
        => detector = Last.pre

\* a detector that has slid its window and filled flags refuses a duplicate
\* after a check call, and is as it was before the refusal
C16_Witness ==
    /\ LastIsAccept
    /\ Last.res = Duplicated(Last.seq)
    /\ Last.pre.latest_seq > Last.seq
    /\ detector = Last.pre
    /\ \E i \in 1 .. Len(Earlier) : Earlier[i].op = "check"

\* the last call fills a gap: a never accepted sequence number behind
\* latest_seq and inside the window
GapFill ==
    /\ LastIsAccept
    /\ 0 < Last.pre.latest_seq
    /\ Last.seq < Last.pre.latest_seq
    /\ Last.pre.latest_seq - Last.seq < Last.pre.window_size
    /\ Last.seq <= Last.pre.max_seq
    /\ Last.seq \notin Accepted(Earlier)

\* C17: a gap fill returns Ok(false), sets exactly the flag at offset
\* latest_seq - seq, shifts nothing, and leaves latest_seq and every other
\* flag unchanged.
C17_GapFillSetsOneFlag ==
    GapFill
        => /\ Last.res = Ok(FALSE)
           /\ detector.latest_seq = Last.pre.latest_seq
           /\ \A j \in 0 .. detector.window_size :
                  Flag(detector.sliding_window, j)
                      = (j = Last.pre.latest_seq - Last.seq
                           \/ Flag(Last.pre.sliding_window, j))

\* the greatest element of a non-empty set of numbers
Greatest(S) == CHOOSE x \in S : \A y \in S : y <= x

\* C18: latest_seq never decreases, changes only in a check_and_accept call
\* that returns Ok with seq > latest_seq, and equals the greatest accepted
\* sequence number once one was accepted.
C18_LatestIsGreatestAccepted ==
    /\ Called
         => /\ detector.latest_seq >= Last.pre.latest_seq
            /\ detector.latest_seq # Last.pre.latest_seq
                 => (LastIsAccept /\ Last.res.tag = "Ok" /\ Last.seq > Last.pre.latest_seq)
    /\ Accepted(history) # {}
         => detector.latest_seq = Greatest(Accepted(history))

\* after a jump ahead, a sequence number behind latest_seq was accepted and
\* latest_seq stayed at the greatest accepted one
C18_Witness ==
    /\ LastIsAccept
    /\ Last.res = Ok(FALSE)
    /\ Last.seq < detector.latest_seq
    /\ Cardinality(Accepted(history)) >= 3
    /\ detector.latest_seq = Greatest(Accepted(history))

----------------------------------------------------------------------------
(* A stand-alone mask driven by a caller, as in the tests of bigint.rs *)

\* offsets read and set on a mask of width w: both ends, either side of the
\* width, the top of the first word
MaskOffsets(w) == {0, 1, 63, w - 1, w, w + 1}

Width(m) == IF m.kind = "Bigint" THEN m.sz ELSE m.size

InitMask ==
    /\ \E sz \in MaskSizes : bi \in {BigintNew(sz), DequeueNew(sz)}
    /\ detector = NoObject
    /\ peer = NoObject
    /\ overflow_checks \in BOOLEAN
    /\ faulted = FALSE
    /\ history = <<>>

\* bi.bit(n)
MaskBit(n) ==
    /\ ~faulted
    /\ Len(history) < MaxMaskCalls
    /\ LET p == BitPanics(bi, n)
           r == IF p THEN "panic" ELSE IF Bit(bi, n) THEN "true" ELSE "false"
       IN  /\ history' = Append(history, [op |-> "bit", n |-> n, res |-> r, pre |-> bi])
           /\ faulted' = p
    /\ UNCHANGED <<detector, peer, bi, overflow_checks>>

\* bi.set_bit(n)
MaskSetBit(n) ==
    /\ ~faulted
    /\ Len(history) < MaxMaskCalls
    /\ LET p == SetBitPanics(bi, n) IN
       /\ bi' = IF p THEN bi ELSE SetBit(bi, n)
       /\ history' = Append(history, [op |-> "set_bit", n |-> n,
                                      res |-> IF p THEN "panic" ELSE "unit", pre |-> bi])
       /\ faulted' = p
    /\ UNCHANGED <<detector, peer, overflow_checks>>

\* bi.shl(n)
MaskShl(n) ==
    /\ ~faulted
    /\ Len(history) < MaxMaskCalls
    /\ LET p == ShlPanics(bi, n, overflow_checks) IN
       /\ bi' = IF p THEN bi ELSE Shl(bi, n)
       /\ history' = Append(history, [op |-> "shl", n |-> n,
                                      res |-> IF p THEN "panic" ELSE "unit", pre |-> bi])
       /\ faulted' = p
    /\ UNCHANGED <<detector, peer, overflow_checks>>

NextMask ==
    \/ \E n \in MaskOffsets(Width(bi)) : MaskBit(n)
    \/ \E n \in MaskOffsets(Width(bi)) : MaskSetBit(n)
    \/ \E n \in ShiftInputs : MaskShl(n)

SpecMask == InitMask /\ [][NextMask]_vars

\* C9: packed-word backend: after shl(n), bit(j) is true exactly when j <= sz
\* and the flag at offset j - n was set before the shift.
C9_ShlMovesFlags ==
    (Called /\ bi.kind = "Bigint" /\ Last.op = "shl" /\ Last.res # "panic")
        => \A j \in 0 .. (bi.sz + 1) :
               ~BitPanics(bi, j)
                   => (Bit(bi, j) = (j <= bi.sz /\ Flag(Last.pre, j - Last.n)))

\* the last two calls were set_bit(k) with k inside the width and then shl(n)
SetThenShifted ==
    /\ Len(history) >= 2
    /\ Last.op = "shl"
    /\ Last.res # "panic"
    /\ history[Len(history) - 1].op = "set_bit"
    /\ history[Len(history) - 1].res # "panic"
    /\ history[Len(history) - 1].n < Width(bi)

\* C11: cell-sequence backend: after set_bit(k) with k < size and shl(n),
\* bit(k + n) is true iff k + n is within the size and bit(k) is false when
\* n > 0 (no flag having been at k - n); after shl(n) with n > size every
\* offset in [0, size) reads unset without faulting.
C11_DequeueShlMovesFlag ==
    (Called /\ bi.kind = "Dequeue")
        => /\ SetThenShifted
                => LET k == history[Len(history) - 1].n
                       n == Last.n
                       before == history[Len(history) - 1].pre
                   IN  /\ (k + n < bi.size) => Flag(bi, k + n)
                       /\ (k + n >= bi.size) => ~Flag(bi, k + n)
                       /\ (n > 0 /\ ~Flag(before, k - n)) => ~Flag(bi, k)
           /\ (Last.op = "shl" /\ Last.n > bi.size)
                => \A j \in 0 .. (bi.size - 1) : ~BitPanics(bi, j) /\ ~Bit(bi, j)

\* C12: both backends treat offset = width as in-bounds: bit(width) and
\* set_bit(width) do not fault, set_bit(width) makes bit(width) true, and a
\* flag shifted from width - 1 by shl(1) reads set at width and unset after
\* one more shl(1).
C12_WidthOffsetInBounds ==
    Called
        => /\ (Last.op \in {"bit", "set_bit"} /\ Last.n = Width(Last.pre))
                => Last.res # "panic"
           /\ (Last.op = "set_bit" /\ Last.n = Width(Last.pre))
                => Flag(bi, Width(bi))
           /\ (SetThenShifted /\ history[Len(history) - 1].n = Width(bi) - 1
                 /\ Last.n = 1)
                => Flag(bi, Width(bi))
           /\ (Len(history) >= 3 /\ Last.op = "shl" /\ Last.n = 1 /\ Last.res # "panic"
                 /\ history[Len(history) - 1].op = "shl"
                 /\ history[Len(history) - 1].n = 1
                 /\ history[Len(history) - 2].op = "set_bit"
                 /\ history[Len(history) - 2].n = Width(bi) - 1
                 /\ ~Flag(history[Len(history) - 2].pre, Width(bi) - 2))
                => ~Flag(bi, Width(bi))

\* the last call was bit(n) or set_bit(n) with n beyond the width
BeyondWidth ==
    /\ Called
    /\ Last.op \in {"bit", "set_bit"}
    /\ Last.n > Width(Last.pre)

\* C13: for both backends and every offset n greater than the width, bit(n)
\* returns false, set_bit(n) leaves every bit(j) with j <= width as it was,
\* and neither call faults.
C13_BeyondWidthNoOp ==
    BeyondWidth
        => /\ Last.res # "panic"
           /\ Last.op = "bit" => Last.res = "false"
           /\ Last.op = "set_bit"
                => \A j \in 0 .. Width(bi) :
                       /\ BitPanics(bi, j) = BitPanics(Last.pre, j)
                       /\ Flag(bi, j) = Flag(Last.pre, j)

\* a packed-word mask holds a stored bit just above its width (a flag set at
\* the width and shifted by one) and bit at that offset reads false
C13_Witness ==
    /\ BeyondWidth
    /\ bi.kind = "Bigint"
    /\ Last.op = "bit"
    /\ Last.n = bi.sz + 1
    /\ Last.n < WordBits
    /\ Last.n \in bi.segments[BigintLen(bi) - 1]
    /\ Last.res = "false"

\* the cells a cell-sequence mask is constructed with
FreshCells(m) == m.vec = [k \in 1 .. m.size |-> 0]

\* C19 as stated: the cell sequence holds size zero cells after construction
\* and no call, shl(n) with n > size included, removes a cell, so its length
\* never decreases.
C19_LengthNeverDecreases ==
    bi.kind = "Dequeue"
        => /\ (~Called) => FreshCells(bi)
           /\ Called => Len(bi.vec) >= Len(Last.pre.vec)

\* C19 amended: the cell sequence holds size zero cells after construction;
\* bit, set_bit and shl(n) with n <= size remove no cell, so the length does
\* not decrease over them; shl(n) with n > size removes every cell.
C19_LengthDropsOnlyOnClear ==
    bi.kind = "Dequeue"
        => /\ (~Called) => FreshCells(bi)
           /\ Called
                => IF Last.op = "shl" /\ Last.n > bi.size
                   THEN Len(bi.vec) = 0
                   ELSE Len(bi.vec) >= Len(Last.pre.vec)

\* a shift within the size has appended its n cells to a sequence that is now
\* longer than the declared size
C19_Witness ==
    /\ Called
    /\ bi.kind = "Dequeue"
    /\ Last.op = "shl"
    /\ 0 < Last.n
    /\ Last.n <= bi.size
    /\ Len(bi.vec) = Len(Last.pre.vec) + Last.n
    /\ Len(bi.vec) > bi.size

\* the bits of the most-significant word that stand for offsets <= sz
TopWordWithinWidth(m) ==
    { b \in AllBits : (BigintLen(m) - 1) * WordBits + b <= m.sz }

\* the offsets of the bits stored in the words of m
StoredOffsets(m) ==
    { (BigintLen(m) - 1 - i) * WordBits + b : i \in DOMAIN m.segments, b \in AllBits }
      \cap { o \in 0 .. (BigintLen(m) * WordBits - 1) :
               (o % WordBits) \in m.segments[BigintLen(m) - 1 - (o \div WordBits)] }

\* C20: packed-word backend: msb_mask keeps exactly the bits of the
\* most-significant word that stand for offsets <= sz, so after every shl no
\* stored bit at an offset > sz is set, and the mask clears no stored bit at
\* an offset <= sz.
C20_MaskKeepsWidth ==
    (Called /\ bi.kind = "Bigint" /\ Last.op = "shl" /\ Last.n > 0 /\ Last.res # "panic")
        => /\ bi.msb_mask = TopWordWithinWidth(bi)
           /\ \A o \in StoredOffsets(bi) : o <= bi.sz
           /\ LET unmasked == ShlLoop(Last.pre.segments, 0, BigintLen(bi),
                                      Last.n % 64, Last.n \div 64)
              IN  (unmasked[0] \cap TopWordWithinWidth(bi)) \subseteq bi.segments[0]

----------------------------------------------------------------------------
(* Two detectors, one per backend, fed the same calls *)

InitPair ==
    /\ \E max_seq \in MaxSeqs, window_size \in WindowSizes :
           /\ detector = DetectorNew("None", max_seq, window_size)
           /\ peer = DetectorNew("Dequeue", max_seq, window_size)
    /\ bi = NoObject
    /\ overflow_checks \in BOOLEAN
    /\ faulted = FALSE
    /\ history = <<>>

\* detector.check_and_accept(seq) and peer.check_and_accept(seq)
PairCheckAndAccept(seq) ==
    /\ ~faulted
    /\ Len(history) < MaxCalls
    /\ LET out == CheckAndAccept(detector, seq, overflow_checks)
           peer_out == CheckAndAccept(peer, seq, overflow_checks)
       IN  /\ detector' = out.det
           /\ peer' = peer_out.det
           /\ history' = Append(history, [op |-> "check_and_accept", seq |-> seq,
                                          res |-> out.res, peer_res |-> peer_out.res,
                                          pre |-> detector])
           /\ faulted' = (out.res.tag = "panic" \/ peer_out.res.tag = "panic")
    /\ UNCHANGED <<bi, overflow_checks>>

NextPair == \E seq \in SeqInputs : PairCheckAndAccept(seq)

SpecPair == InitPair /\ [][NextPair]_vars

\* C10: a detector on Dequeue::new(window_size) returns, call by call, the
\* same result as a detector on the default backend.
C10_BackendsAgree == Called => Last.res = Last.peer_res

====
